---- MODULE Spec2Model ----
(***************************************************************************)
(* Model of create_graph.py: the batch pipeline that turns a phone-book    *)
(* export into a GEXF graph (registry, sanitizer, degree counter,          *)
(* adjacency builder, node/edge renderer, document writer).                *)
(*                                                                         *)
(* Python values are modelled as follows.                                  *)
(*   str (phone number)  a sequence of one-character strings               *)
(*   list                a sequence                                        *)
(*   dict                a sequence of [k, v] entries in insertion order   *)
(*   a call's outcome    [err |-> "" or the exception's name, val |-> ...] *)
(*   a rendered element  a record of the values put into the template      *)
(***************************************************************************)
EXTENDS Integers, Sequences, FiniteSets, TLC

VARIABLES mode, pc, threshold, raw_data, registered_users,
          users_non_registered_contacts, connectivity_degrees,
          phones_adjacency, unique_phones, nodes, edges, error, file

\* mode       the entry point: "main" (lines 237-245), or a direct call of
\*            create_gexf_nodes ("nodes") or create_gexf_edges ("edges")
\* pc         the position of the script, or "call"/"returned"/"raised"
\* threshold  the module global CONNECTIVITY_THRESHOLD (line 14)
\* raw_data .. phones_adjacency   the locals of lines 238-243
\* unique_phones, nodes, edges    the locals of create_gexf_graph (155-158)
\* error      the name of the exception that ended the run or call, or ""
\* file       the file at GRAPH_DATA_PATH as this run has touched it
vars == <<mode, pc, threshold, raw_data, registered_users,
          users_non_registered_contacts, connectivity_degrees,
          phones_adjacency, unique_phones, nodes, edges, error, file>>

----------------------------------------------------------------------------
(* Bounds and the values inputs are drawn from.                            *)

\* Total number of phone-number occurrences in one input (record keys plus
\* contact-list entries; row elements for a direct call of the edge renderer).
MaxInput == 4

\* Three phone numbers: shorter than, exactly as long as, and longer than the
\* five characters the renderer keeps of a sparse number.
PhoneShort == <<"1", "2", "3">>
PhoneFive == <<"5", "5", "5", "0", "1">>
PhoneLong == <<"5", "5", "5", "0", "1", "9", "9">>
Phones == {PhoneShort, PhoneFive, PhoneLong}

\* A phone-number position of the JSON input holding a number instead of a
\* string: hashable and comparable like a string, but not subscriptable.
JsonNumber == <<"json-number">>
IsStr(phone) == phone # JsonNumber

\* The values a phone-number position of the input file takes.
InputPhones == {PhoneShort, PhoneLong, JsonNumber}

CONNECTIVITY_THRESHOLD == 10

\* Values of the module global CONNECTIVITY_THRESHOLD: the default and two
\* small ones that three phone numbers can reach through the pipeline.
Thresholds == {1, 2, CONNECTIVITY_THRESHOLD}

RequiredFields == {"phoneNumber", "accountId", "displayName", "ziiname", "contactList"}

----------------------------------------------------------------------------
(* Python built-ins used by the code.                                      *)

Range(s) == {s[i] : i \in 1..Len(s)}

\* Every order in which iterating a set can yield its elements.
Orders(S) == {f \in [1..Cardinality(S) -> S] : Range(f) = S}

DictHas(d, key) == \E i \in 1..Len(d) : d[i].k = key

DictGet(d, key) == d[CHOOSE i \in 1..Len(d) : d[i].k = key].v

\* d[key] = value: overwrite in place, or insert at the end.
DictSet(d, key, value) ==
    IF DictHas(d, key)
    THEN [i \in 1..Len(d) |-> IF d[i].k = key THEN [k |-> key, v |-> value] ELSE d[i]]
    ELSE Append(d, [k |-> key, v |-> value])

DictKeys(d) == [i \in 1..Len(d) |-> d[i].k]

DictValues(d) == [i \in 1..Len(d) |-> d[i].v]

RECURSIVE Chain(_)
\* itertools.chain.from_iterable over a list of lists.
Chain(lists) == IF lists = <<>> THEN <<>> ELSE Head(lists) \o Chain(Tail(lists))

Ok(value) == [err |-> "", val |-> value]

Raise(name) == [err |-> name, val |-> <<>>]

----------------------------------------------------------------------------
(* get_registered_users                                                    *)

RECURSIVE RegisteredLoop_Append(_, _, _)
\* Mutation: the registry collects one entry per record instead of
\* assigning by key.
RegisteredLoop_Append(raw, i, acc) ==
    IF i > Len(raw.items) THEN Ok(acc)
    ELSE LET user == raw.items[i] IN
         IF raw.kind = "object" THEN Raise("TypeError")
         ELSE IF {"accountId", "displayName", "ziiname", "phoneNumber"} \subseteq DOMAIN user
         THEN RegisteredLoop_Append(raw, i + 1,
                  Append(acc, [k |-> user.phoneNumber,
                               v |-> [account_id |-> user.accountId,
                                      display_name |-> user.displayName,
                                      ziiname |-> user.ziiname]]))
         ELSE Raise("KeyError")

RECURSIVE RegisteredLoop(_, _, _)
RegisteredLoop(raw, i, acc) ==
    IF i > Len(raw.items) THEN Ok(acc)
    ELSE LET user == raw.items[i] IN
         IF raw.kind = "object" THEN Raise("TypeError")
         ELSE IF {"accountId", "displayName", "ziiname", "phoneNumber"} \subseteq DOMAIN user
         THEN RegisteredLoop(raw, i + 1,
                  DictSet(acc, user.phoneNumber,
                          [account_id |-> user.accountId,
                           display_name |-> user.displayName,
                           ziiname |-> user.ziiname]))
         ELSE Raise("KeyError")

get_registered_users(raw) ==
    IF raw.kind = "number" THEN Raise("TypeError") ELSE RegisteredLoop(raw, 1, <<>>)

----------------------------------------------------------------------------
(* get_users_non_registered_contacts                                       *)

\* Mutation: the membership test of line 115 is dropped.
NonRegistered_NoFilter(contacts, registered) == contacts

\* Mutation: the membership test of line 115 is inverted.
NonRegistered_Inverted(contacts, registered) ==
    SelectSeq(contacts, LAMBDA phone : DictHas(registered, phone))

\* Lines 113-116 for one iteration order of set(user['contactList']).
NonRegistered(contacts, registered) ==
    SelectSeq(contacts, LAMBDA phone : ~DictHas(registered, phone))

\* Mutation: line 114 iterates the contact list itself, not its set.
ContactSet_NoDedup(contactList) == {contactList}

\* set(user['contactList']) as the lists its iteration can yield.
ContactSet(contactList) == Orders(Range(contactList))

RECURSIVE SanitizeLoop(_, _, _, _)
\* The set of outcomes, one per iteration order of the sets.
SanitizeLoop(raw, i, registered, acc) ==
    IF i > Len(raw.items) THEN {Ok(acc)}
    ELSE LET user == raw.items[i] IN
         IF raw.kind = "object" THEN {Raise("TypeError")}
         ELSE IF "contactList" \notin DOMAIN user THEN {Raise("KeyError")}
         ELSE IF "phoneNumber" \notin DOMAIN user THEN {Raise("KeyError")}
         ELSE UNION {SanitizeLoop(raw, i + 1, registered,
                         DictSet(acc, user.phoneNumber, NonRegistered(contacts, registered)))
                     : contacts \in ContactSet(user.contactList)}

get_users_non_registered_contacts(raw, registered) ==
    IF raw.kind = "number" THEN {Raise("TypeError")}
    ELSE SanitizeLoop(raw, 1, registered, <<>>)

----------------------------------------------------------------------------
(* get_connectivity_degrees                                                *)

RECURSIVE Counter(_, _)
\* collections.Counter: one entry per distinct element, in first-seen order.
Counter(elems, acc) ==
    IF elems = <<>> THEN acc
    ELSE Counter(Tail(elems),
                 DictSet(acc, Head(elems),
                         IF DictHas(acc, Head(elems)) THEN DictGet(acc, Head(elems)) + 1 ELSE 1))

get_connectivity_degrees(contacts) == Counter(Chain(DictValues(contacts)), <<>>)

----------------------------------------------------------------------------
(* get_phones_adjacency                                                    *)

RECURSIVE AdjacencyLoop(_, _, _)
AdjacencyLoop(keys, contacts, acc) ==
    IF keys = <<>> THEN Ok(acc)
    ELSE IF ~DictHas(contacts, Head(keys)) THEN Raise("KeyError")
    ELSE AdjacencyLoop(Tail(keys), contacts,
                       Append(acc, <<Head(keys)>> \o DictGet(contacts, Head(keys))))

get_phones_adjacency(registered, contacts) ==
    AdjacencyLoop(DictKeys(registered), contacts, <<>>)

----------------------------------------------------------------------------
(* create_gexf_nodes, create_gexf_edges, create_gexf_graph                 *)

\* The number of characters phone[:5] keeps.
TruncationLength == 5

Ellipsis == <<".", ".", ".">>

\* Mutation: the slice keeps one character less.
Prefix_OneLess(phone, n) == SubSeq(phone, 1, IF Len(phone) < n - 1 THEN Len(phone) ELSE n - 1)

\* phone[:n]
Prefix(phone, n) == SubSeq(phone, 1, IF Len(phone) < n THEN Len(phone) ELSE n)

\* Mutation: line 192 compares with > instead of >=.
Classify_Strict(phone, registered, degrees, thr) ==
    IF DictHas(registered, phone) THEN "registered"
    ELSE IF ~DictHas(degrees, phone) THEN "KeyError"
    ELSE IF DictGet(degrees, phone) > thr THEN "popular"
    ELSE IF ~IsStr(phone) THEN "TypeError"
    ELSE "sparse"

\* The branch of lines 184-207 taken for one phone number.
Classify(phone, registered, degrees, thr) ==
    IF DictHas(registered, phone) THEN "registered"
    ELSE IF ~DictHas(degrees, phone) THEN "KeyError"
    ELSE IF DictGet(degrees, phone) >= thr THEN "popular"
    ELSE IF ~IsStr(phone) THEN "TypeError"
    ELSE "sparse"

\* GEXF_NODE_TEMPLATE filled in for one phone number of a given branch.
Node(phone, class, registered) ==
    IF class = "registered"
    THEN [id |-> phone, label |-> DictGet(registered, phone).display_name,
          color |-> "ce54ff",
          att_id |-> DictGet(registered, phone).account_id,
          att_name |-> DictGet(registered, phone).display_name,
          att_phone |-> phone]
    ELSE IF class = "popular"
    THEN [id |-> phone, label |-> "???", color |-> "ffff00",
          att_id |-> "", att_name |-> "", att_phone |-> phone]
    ELSE [id |-> phone, label |-> "???", color |-> "333333",
          att_id |-> "", att_name |-> "",
          att_phone |-> Prefix(phone, TruncationLength) \o Ellipsis]

RECURSIVE NodesLoop(_, _, _, _, _)
NodesLoop(registered, degrees, phones, thr, acc) ==
    IF phones = <<>> THEN Ok(acc)
    ELSE LET class == Classify(Head(phones), registered, degrees, thr) IN
         IF class \in {"KeyError", "TypeError"} THEN Raise(class)
         ELSE NodesLoop(registered, degrees, Tail(phones), thr,
                        Append(acc, Node(Head(phones), class, registered)))

create_gexf_nodes(registered, degrees, phones, thr) ==
    NodesLoop(registered, degrees, phones, thr, <<>>)

\* Mutation: the targets are row[2:].
RowEdges_FromSecond(row) ==
    [j \in 1..(Len(row) - 2) |->
        [source_id |-> row[1], target_id |-> row[j + 2], color |-> "000"]]

\* GEXF_EDGE_TEMPLATE filled in for every element of row[1:].
RowEdges(row) ==
    [j \in 1..(Len(row) - 1) |->
        [source_id |-> row[1], target_id |-> row[j + 1], color |-> "000"]]

RECURSIVE EdgesLoop(_, _)
EdgesLoop(rows, acc) ==
    IF rows = <<>> THEN Ok(acc)
    ELSE IF Head(rows) = <<>> THEN Raise("IndexError")
    ELSE EdgesLoop(Tail(rows), acc \o RowEdges(Head(rows)))

create_gexf_edges(adjacency) == EdgesLoop(adjacency, <<>>)

Unopened == [opened |-> FALSE, text |-> <<>>]

\* GEXF_GRAPH_TEMPLATE filled in and written to the opened file.
Document(nodeList, edgeList) == [opened |-> TRUE, text |-> <<nodeList, edgeList>>]

\* Mutation: the file is opened for writing before the nodes and edges are
\* rendered.
GraphFor_OpenFirst(adjacency, registered, degrees, thr, phones, old) ==
    LET n == create_gexf_nodes(registered, degrees, phones, thr)
        e == create_gexf_edges(adjacency)
        opened == [opened |-> TRUE, text |-> <<>>]
    IN  IF n.err # "" THEN [err |-> n.err, unique |-> phones, nodes |-> <<>>,
                            edges |-> <<>>, file |-> opened]
        ELSE IF e.err # "" THEN [err |-> e.err, unique |-> phones, nodes |-> n.val,
                                 edges |-> <<>>, file |-> opened]
        ELSE [err |-> "", unique |-> phones, nodes |-> n.val, edges |-> e.val,
              file |-> Document(n.val, e.val)]

\* Lines 157-165 for one iteration order of set(plain_phones).
GraphFor(adjacency, registered, degrees, thr, phones, old) ==
    LET n == create_gexf_nodes(registered, degrees, phones, thr)
        e == create_gexf_edges(adjacency)
    IN  IF n.err # "" THEN [err |-> n.err, unique |-> phones, nodes |-> <<>>,
                            edges |-> <<>>, file |-> old]
        ELSE IF e.err # "" THEN [err |-> e.err, unique |-> phones, nodes |-> n.val,
                                 edges |-> <<>>, file |-> old]
        ELSE [err |-> "", unique |-> phones, nodes |-> n.val, edges |-> e.val,
              file |-> Document(n.val, e.val)]

\* Mutation: line 155 keeps plain_phones as it is, without set().
create_gexf_graph_NoSet(adjacency, registered, degrees, thr, old) ==
    {GraphFor(adjacency, registered, degrees, thr, Chain(adjacency), old)}

\* The set of outcomes, one per iteration order of set(plain_phones).
create_gexf_graph(adjacency, registered, degrees, thr, old) ==
    {GraphFor(adjacency, registered, degrees, thr, phones, old)
        : phones \in Orders(Range(Chain(adjacency)))}

----------------------------------------------------------------------------
(* Inputs.                                                                 *)

RECURSIVE Split(_, _, _)
\* The record sequence whose phone-number occurrences, in file order, are
\* tokens, a new record starting after every position in cuts.
Split(tokens, cuts, from) ==
    IF from > Len(tokens) THEN <<>>
    ELSE LET ends == {c \in cuts : c >= from} \cup {Len(tokens)}
             end == CHOOSE c \in ends : \A d \in ends : c <= d
         IN  <<[phoneNumber |-> tokens[from],
                contactList |-> SubSeq(tokens, from + 1, end)]>>
             \o Split(tokens, cuts, end + 1)

\* The remaining fields of the i-th record of the file.
Complete(s) ==
    [i \in 1..Len(s) |->
        [phoneNumber |-> s[i].phoneNumber,
         accountId |-> "id" \o ToString(i),
         displayName |-> "name" \o ToString(i),
         ziiname |-> "zii" \o ToString(i),
         contactList |-> s[i].contactList]]

Without(record, field) == [f \in DOMAIN record \ {field} |-> record[f]]

\* An array of records; with i > 0, the i-th record lacks the field f.
ArrayInput(tokens, cuts, i, f) ==
    LET items == Complete(Split(tokens, cuts, 1))
    IN  [kind |-> "array",
         items |-> IF i \in 1..Len(items) THEN [items EXCEPT ![i] = Without(@, f)] ELSE items]

\* json.load of a file that is no array: a number, an object (iterated by
\* its keys).
NotAnArray ==
    {[kind |-> "number", items |-> <<>>],
     [kind |-> "object", items |-> <<>>],
     [kind |-> "object", items |-> <<[key |-> "phoneNumber"]>>]}

PhoneList == <<PhoneShort, PhoneFive, PhoneLong>>

\* A dict with the keys S and the values f[key].
MakeDict(S, f) ==
    LET keys == SelectSeq(PhoneList, LAMBDA p : p \in S)
    IN  [i \in 1..Len(keys) |-> [k |-> keys[i], v |-> f[keys[i]]]]

Attributes == [account_id |-> "id0", display_name |-> "name0", ziiname |-> "zii0"]

\* Arguments of a direct call of create_gexf_nodes.
RegisteredArgs == {MakeDict(S, [p \in S |-> Attributes]) : S \in SUBSET Phones}

DegreeArgs(thr) ==
    UNION {{MakeDict(S, f) : f \in [S -> {thr - 1, thr, thr + 1} \ {0}]} : S \in SUBSET Phones}

UniqueArgs == UNION {Orders(S) : S \in SUBSET Phones}

\* Arguments of a direct call of create_gexf_edges: rows of at least one
\* element, followed by an empty row when withEmpty.
RowArgs(tokens, cuts, withEmpty) ==
    LET s == Split(tokens, cuts, 1)
        rows == [i \in 1..Len(s) |-> <<s[i].phoneNumber>> \o s[i].contactList]
    IN  IF withEmpty THEN Append(rows, <<>>) ELSE rows

----------------------------------------------------------------------------
(* The state machine.                                                      *)

Blank ==
    /\ registered_users = <<>>
    /\ users_non_registered_contacts = <<>>
    /\ connectivity_degrees = <<>>
    /\ phones_adjacency = <<>>
    /\ unique_phones = <<>>
    /\ nodes = <<>>
    /\ edges = <<>>
    /\ error = ""
    /\ file = Unopened

\* The script is run on an input file.
InitMain ==
    /\ mode = "main"
    /\ pc = "start"
    /\ threshold \in Thresholds
    /\ raw_data = [kind |-> "unread", items |-> <<>>]
    /\ Blank

\* create_gexf_nodes is called on its own.
InitNodes ==
    /\ mode = "nodes"
    /\ pc = "call"
    /\ threshold \in Thresholds
    /\ raw_data = [kind |-> "array", items |-> <<>>]
    /\ registered_users \in RegisteredArgs
    /\ users_non_registered_contacts = <<>>
    /\ connectivity_degrees \in DegreeArgs(threshold)
    /\ phones_adjacency = <<>>
    /\ unique_phones \in UniqueArgs
    /\ nodes = <<>>
    /\ edges = <<>>
    /\ error = ""
    /\ file = Unopened

\* create_gexf_edges is called on its own.
InitEdges ==
    /\ mode = "edges"
    /\ pc = "call"
    /\ threshold = CONNECTIVITY_THRESHOLD
    /\ raw_data = [kind |-> "array", items |-> <<>>]
    /\ registered_users = <<>>
    /\ users_non_registered_contacts = <<>>
    /\ connectivity_degrees = <<>>
    /\ \E n \in 0..MaxInput : \E tokens \in [1..n -> Phones] :
       \E cuts \in SUBSET (1..(n - 1)) : \E withEmpty \in BOOLEAN :
           phones_adjacency = RowArgs(tokens, cuts, withEmpty)
    /\ unique_phones = <<>>
    /\ nodes = <<>>
    /\ edges = <<>>
    /\ error = ""
    /\ file = Unopened

Init == InitMain \/ InitNodes \/ InitEdges

\* Line 238: json.load returns what the file holds.
ReadRawData ==
    /\ mode = "main" /\ pc = "start"
    /\ \/ \E n \in 0..MaxInput : \E tokens \in [1..n -> InputPhones] :
          \E cuts \in SUBSET (1..(n - 1)) :
          \E i \in 0..(IF n = 0 THEN 0 ELSE Cardinality(cuts) + 1) :
          \E f \in (IF i = 0 THEN {"phoneNumber"} ELSE RequiredFields) :
              raw_data' = ArrayInput(tokens, cuts, i, f)
       \/ raw_data' \in NotAnArray
    /\ pc' = "read"
    /\ UNCHANGED <<mode, threshold, registered_users, users_non_registered_contacts,
                   connectivity_degrees, phones_adjacency, unique_phones, nodes, edges,
                   error, file>>

\* Line 240.
GetRegisteredUsers ==
    /\ mode = "main" /\ pc = "read"
    /\ LET r == get_registered_users(raw_data) IN
        /\ pc' = IF r.err = "" THEN "registered" ELSE "failed"
        /\ error' = r.err
        /\ registered_users' = r.val
    /\ UNCHANGED <<mode, threshold, raw_data, users_non_registered_contacts,
                   connectivity_degrees, phones_adjacency, unique_phones, nodes, edges, file>>

\* Line 241.
GetUsersNonRegisteredContacts ==
    /\ mode = "main" /\ pc = "registered"
    /\ \E r \in get_users_non_registered_contacts(raw_data, registered_users) :
        /\ pc' = IF r.err = "" THEN "sanitized" ELSE "failed"
        /\ error' = r.err
        /\ users_non_registered_contacts' = r.val
    /\ UNCHANGED <<mode, threshold, raw_data, registered_users,
                   connectivity_degrees, phones_adjacency, unique_phones, nodes, edges, file>>

\* Line 242.
GetConnectivityDegrees ==
    /\ mode = "main" /\ pc = "sanitized"
    /\ pc' = "counted"
    /\ connectivity_degrees' = get_connectivity_degrees(users_non_registered_contacts)
    /\ UNCHANGED <<mode, threshold, raw_data, registered_users, users_non_registered_contacts,
                   phones_adjacency, unique_phones, nodes, edges, error, file>>

\* Line 243.
GetPhonesAdjacency ==
    /\ mode = "main" /\ pc = "counted"
    /\ LET r == get_phones_adjacency(registered_users, users_non_registered_contacts) IN
        /\ pc' = IF r.err = "" THEN "adjacent" ELSE "failed"
        /\ error' = r.err
        /\ phones_adjacency' = r.val
    /\ UNCHANGED <<mode, threshold, raw_data, registered_users, users_non_registered_contacts,
                   connectivity_degrees, unique_phones, nodes, edges, file>>

\* Line 245.
CreateGexfGraph ==
    /\ mode = "main" /\ pc = "adjacent"
    /\ \E r \in create_gexf_graph(phones_adjacency, registered_users,
                                   connectivity_degrees, threshold, file) :
        /\ pc' = IF r.err = "" THEN "written" ELSE "failed"
        /\ error' = r.err
        /\ unique_phones' = r.unique
        /\ nodes' = r.nodes
        /\ edges' = r.edges
        /\ file' = r.file
    /\ UNCHANGED <<mode, threshold, raw_data, registered_users, users_non_registered_contacts,
                   connectivity_degrees, phones_adjacency>>

CreateGexfNodes ==
    /\ mode = "nodes" /\ pc = "call"
    /\ LET r == create_gexf_nodes(registered_users, connectivity_degrees,
                                  unique_phones, threshold) IN
        /\ pc' = IF r.err = "" THEN "returned" ELSE "raised"
        /\ error' = r.err
        /\ nodes' = r.val
    /\ UNCHANGED <<mode, threshold, raw_data, registered_users, users_non_registered_contacts,
                   connectivity_degrees, phones_adjacency, unique_phones, edges, file>>

CreateGexfEdges ==
    /\ mode = "edges" /\ pc = "call"
    /\ LET r == create_gexf_edges(phones_adjacency) IN
        /\ pc' = IF r.err = "" THEN "returned" ELSE "raised"
        /\ error' = r.err
        /\ edges' = r.val
    /\ UNCHANGED <<mode, threshold, raw_data, registered_users, users_non_registered_contacts,
                   connectivity_degrees, phones_adjacency, unique_phones, nodes, file>>

Next ==
    \/ ReadRawData
    \/ GetRegisteredUsers
    \/ GetUsersNonRegisteredContacts
    \/ GetConnectivityDegrees
    \/ GetPhonesAdjacency
    \/ CreateGexfGraph
    \/ CreateGexfNodes
    \/ CreateGexfEdges

Spec == Init /\ [][Next]_vars

TypeOK ==
    /\ mode \in {"main", "nodes", "edges"}
    /\ pc \in {"start", "read", "registered", "sanitized", "counted", "adjacent", "written",
               "failed", "call", "returned", "raised"}
    /\ error \in {"", "KeyError", "TypeError", "IndexError"}

----------------------------------------------------------------------------
(* Vocabulary of the properties.                                           *)

AllPhones == Phones \cup InputPhones

Count(s, x) == Cardinality({i \in 1..Len(s) : s[i] = x})

RECURSIVE Sum(_)
Sum(s) == IF s = <<>> THEN 0 ELSE Head(s) + Sum(Tail(s))

\* Positions of the script at or after the end of each stage.
AfterRegistry == {"registered", "sanitized", "counted", "adjacent", "written"}
AfterSanitizer == {"sanitized", "counted", "adjacent", "written"}
AfterCounter == {"counted", "adjacent", "written"}
AfterAdjacency == {"adjacent", "written"}

\* The phone numbers of the input records (all records have one once the
\* registry stage has passed).
RecordPhones == {raw_data.items[i].phoneNumber : i \in 1..Len(raw_data.items)}

\* Some record of the input lists a number twice.
HasRepeatedContact ==
    \E i \in 1..Len(raw_data.items) : \E p \in AllPhones :
        Count(raw_data.items[i].contactList, p) >= 2

\* Two records of the input have the same phone number.
HasSharedPhoneNumber ==
    \E i, j \in 1..Len(raw_data.items) :
        i # j /\ raw_data.items[i].phoneNumber = raw_data.items[j].phoneNumber

\* Some record lists its own number.
HasOwnNumber ==
    \E i \in 1..Len(raw_data.items) :
        raw_data.items[i].phoneNumber \in Range(raw_data.items[i].contactList)

Heads == [i \in 1..Len(phones_adjacency) |-> Head(phones_adjacency[i])]

\* The owners whose sanitized contact list contains the phone number.
Owners(phone) ==
    {users_non_registered_contacts[i].k : i \in
        {j \in 1..Len(users_non_registered_contacts) :
            phone \in Range(users_non_registered_contacts[j].v)}}

\* A number's degree as callers read it: absent counts as 0.
DegreeOrZero(phone) ==
    IF DictHas(connectivity_degrees, phone) THEN DictGet(connectivity_degrees, phone) ELSE 0

IsRegisteredNode(n) == n.color = "ce54ff"
IsPopularNode(n) == n.color = "ffff00"
IsSparseNode(n) == n.color = "333333"

\* The states in which node creation has returned its list.
NodesCreated == (mode = "main" /\ pc = "written") \/ (mode = "nodes" /\ pc = "returned")

\* The states in which edge creation has returned its list.
EdgesCreated == (mode = "main" /\ pc = "written") \/ (mode = "edges" /\ pc = "returned")

----------------------------------------------------------------------------
(* C1: once the registry and the sanitizer have run over the same records, *)
(* no sanitized contact list holds a phone number that is a key of the     *)
(* registered-users mapping.                                               *)
C1_SanitizedDisjointFromRegistered ==
    \A i \in 1..Len(users_non_registered_contacts) :
        \A p \in Range(users_non_registered_contacts[i].v) :
            ~DictHas(registered_users, p)

\* The sanitizer has run on records sharing a phone number, one of which
\* lists its own (registered) number.
C1_Witness ==
    /\ mode = "main" /\ pc = "sanitized"
    /\ HasSharedPhoneNumber
    /\ HasOwnNumber

(* C2: every phone number of an input record is exactly once a key of the  *)
(* registered-users mapping, exactly once a key of the sanitized-contacts  *)
(* mapping and exactly once the head of an adjacency row, and every row's  *)
(* head is a record's phone number.                                        *)
C2_OneEntryPerRecordPhone ==
    mode = "main" =>
        /\ pc \in AfterRegistry =>
               /\ \A p \in RecordPhones : Count(DictKeys(registered_users), p) = 1
               /\ Range(DictKeys(registered_users)) = RecordPhones
        /\ pc \in AfterSanitizer =>
               /\ \A p \in RecordPhones : Count(DictKeys(users_non_registered_contacts), p) = 1
               /\ Range(DictKeys(users_non_registered_contacts)) = RecordPhones
        /\ pc \in AfterAdjacency =>
               /\ \A p \in RecordPhones : Count(Heads, p) = 1
               /\ Range(Heads) = RecordPhones

\* The adjacency rows are built for an input in which records share a phone
\* number.
C2_Witness ==
    /\ mode = "main" /\ pc = "adjacent"
    /\ HasSharedPhoneNumber
    /\ Cardinality(RecordPhones) >= 2

(* C3: a phone number's connectivity degree is the number of distinct      *)
(* owners whose sanitized contact list contains it, however often a raw    *)
(* contact list repeats it; a number in no sanitized list has no entry.    *)
C3_DegreeIsOwnerCount ==
    (mode = "main" /\ pc \in AfterCounter) =>
        \A p \in AllPhones :
            /\ Count(DictKeys(connectivity_degrees), p) <= 1
            /\ DictHas(connectivity_degrees, p) <=> Owners(p) # {}
            /\ DegreeOrZero(p) = Cardinality(Owners(p))

\* Degrees are counted for an input with a repeated contact; one number has
\* a degree and another has none.
C3_Witness ==
    /\ mode = "main" /\ pc = "counted"
    /\ HasRepeatedContact
    /\ \E p \in AllPhones :
           DegreeOrZero(p) = 1 /\ \E i \in 1..Len(raw_data.items) :
                                      Count(raw_data.items[i].contactList, p) >= 2
    /\ \E p \in AllPhones : ~DictHas(connectivity_degrees, p)

(* C4: for a run of the whole pipeline, node creation yields exactly one   *)
(* node for each distinct phone number of the adjacency rows, each node in *)
(* the category that registered-before-popular-before-sparse assigns to    *)
(* it, and the rendering stage never fails with a lookup error.            *)
C4_OneClassifiedNodePerPhone ==
    mode = "main" =>
        /\ pc = "written" =>
               /\ \A p \in Range(Chain(phones_adjacency)) :
                      Cardinality({i \in 1..Len(nodes) : nodes[i].id = p}) = 1
               /\ \A i \in 1..Len(nodes) :
                      /\ nodes[i].id \in Range(Chain(phones_adjacency))
                      /\ nodes[i].color =
                             IF DictHas(registered_users, nodes[i].id) THEN "ce54ff"
                             ELSE IF DegreeOrZero(nodes[i].id) >= threshold THEN "ffff00"
                             ELSE "333333"
        /\ (pc = "failed" /\ phones_adjacency # <<>>) => error # "KeyError"

\* The document is written for a graph in which one unregistered number is
\* in two rows and reaches the threshold by that, beside registered nodes.
C4_Witness ==
    /\ mode = "main" /\ pc = "written"
    /\ \E p \in AllPhones : Count(Chain(phones_adjacency), p) >= 2
    /\ \E i \in 1..Len(nodes) : IsRegisteredNode(nodes[i])
    /\ \E i \in 1..Len(nodes) :
           IsPopularNode(nodes[i]) /\ DegreeOrZero(nodes[i].id) = threshold

(* C5: create_gexf_nodes renders every unregistered phone number whose     *)
(* degree is below the threshold as a sparse node (neutral colour, '???'   *)
(* label, truncated phone, empty id and name), a number without an entry   *)
(* in the degree mapping (degree 0) included, and raises no error for it.  *)
C5_AbsentDegreeIsSparse ==
    (mode = "nodes" /\ pc # "call") =>
        \A p \in Range(unique_phones) :
            (~DictHas(registered_users, p) /\ DegreeOrZero(p) < threshold) =>
                /\ error = ""
                /\ \E i \in 1..Len(nodes) :
                       /\ nodes[i].id = p
                       /\ nodes[i].color = "333333"
                       /\ nodes[i].label = "???"
                       /\ nodes[i].att_id = "" /\ nodes[i].att_name = ""
                       /\ nodes[i].att_phone = Prefix(p, TruncationLength) \o Ellipsis

(* C6: a node of an unregistered phone number is popular exactly when the  *)
(* number's degree is at least the threshold and sparse exactly when it is *)
(* below; a node of a registered number is registered whatever degree the  *)
(* mapping holds for it.                                                   *)
C6_PopularIffDegreeAtLeastThreshold ==
    NodesCreated =>
        \A i \in 1..Len(nodes) :
            LET p == nodes[i].id IN
            IF DictHas(registered_users, p) THEN IsRegisteredNode(nodes[i])
            ELSE /\ DictHas(connectivity_degrees, p)
                 /\ IsPopularNode(nodes[i]) <=> DictGet(connectivity_degrees, p) >= threshold
                 /\ IsSparseNode(nodes[i]) <=> DictGet(connectivity_degrees, p) < threshold

\* One call renders a number of degree exactly the threshold as popular, a
\* number of degree one less as sparse, and a registered number whose
\* degree entry reaches the threshold as registered.
C6_Witness ==
    /\ mode = "nodes" /\ pc = "returned"
    /\ \E i, j, k \in 1..Len(nodes) :
           /\ ~DictHas(registered_users, nodes[i].id)
           /\ DictGet(connectivity_degrees, nodes[i].id) = threshold
           /\ IsPopularNode(nodes[i])
           /\ ~DictHas(registered_users, nodes[j].id)
           /\ DictGet(connectivity_degrees, nodes[j].id) = threshold - 1
           /\ IsSparseNode(nodes[j])
           /\ DictHas(registered_users, nodes[k].id)
           /\ DictHas(connectivity_degrees, nodes[k].id)
           /\ DictGet(connectivity_degrees, nodes[k].id) >= threshold
           /\ IsRegisteredNode(nodes[k])

\* The number of times t follows the head h in the rows.
Occurrences(h, t) ==
    Sum([i \in 1..Len(phones_adjacency) |->
            IF Head(phones_adjacency[i]) = h THEN Count(Tail(phones_adjacency[i]), t) ELSE 0])

(* C7: the edge list holds one edge (head, t) for every occurrence of t in *)
(* the tail of a row with that head and nothing else, each black; for the  *)
(* pipeline the number of edges is the sum of the sizes of the sanitized   *)
(* contact lists.                                                          *)
C7_EdgesAreRowOccurrences ==
    EdgesCreated =>
        /\ \A h, t \in AllPhones :
               Cardinality({i \in 1..Len(edges) :
                   edges[i].source_id = h /\ edges[i].target_id = t}) = Occurrences(h, t)
        /\ \A i \in 1..Len(edges) :
               /\ edges[i].source_id \in AllPhones
               /\ edges[i].target_id \in AllPhones
               /\ edges[i].color = "000"
        /\ Len(edges) = Sum([i \in 1..Len(phones_adjacency) |-> Len(phones_adjacency[i]) - 1])
        /\ mode = "main" =>
               Len(edges) = Sum([i \in 1..Len(users_non_registered_contacts) |->
                                    Len(users_non_registered_contacts[i].v)])

\* The edge renderer returns for rows of which two share a head, one
\* repeats a tail element and one has an empty tail.
C7_Witness ==
    /\ mode = "edges" /\ pc = "returned"
    /\ \E i, j \in 1..Len(phones_adjacency) :
           /\ i # j
           /\ Head(phones_adjacency[i]) = Head(phones_adjacency[j])
           /\ Len(phones_adjacency[j]) = 1
           /\ \E t \in AllPhones : Count(Tail(phones_adjacency[i]), t) >= 2
    /\ edges # <<>>

(* C8: the output file is opened and written only when registry,           *)
(* sanitizer, degree counter, adjacency builder and node and edge          *)
(* rendering have all completed, so a run that fails in any stage leaves   *)
(* the file untouched and a run that touches it writes the whole document. *)
C8_NoOutputUnlessAllStagesPassed ==
    /\ pc = "failed" => file = Unopened
    /\ file # Unopened =>
           /\ mode = "main" /\ pc = "written" /\ error = ""
           /\ file = Document(nodes, edges)
           /\ Len(nodes) = Cardinality(Range(Chain(phones_adjacency)))
           /\ Len(phones_adjacency) = Len(registered_users)
    /\ (mode = "main" /\ pc = "written") => file = Document(nodes, edges)

\* A run that got as far as rendering fails there.
C8_Witness ==
    /\ mode = "main" /\ pc = "failed"
    /\ phones_adjacency # <<>>
    /\ error = "TypeError"

(* C9: the phone attribute of a sparse node is the first five characters   *)
(* of the number, or the whole number when it has at most five, followed   *)
(* by '...'; registered and popular nodes carry the whole number.          *)
C9_SparsePhoneIsPrefixPlusEllipsis ==
    NodesCreated =>
        \A i \in 1..Len(nodes) :
            LET p == nodes[i].id
                a == nodes[i].att_phone
                keep == IF Len(p) <= TruncationLength THEN Len(p) ELSE TruncationLength
            IN  IF IsSparseNode(nodes[i])
                THEN /\ Len(a) = keep + 3
                     /\ \A c \in 1..keep : a[c] = p[c]
                     /\ \A c \in (keep + 1)..(keep + 3) : a[c] = "."
                ELSE a = p

\* One call renders as sparse a number shorter than five characters, one of
\* exactly five and a longer one.
C9_Witness ==
    /\ mode = "nodes" /\ pc = "returned"
    /\ \A p \in Phones : \E i \in 1..Len(nodes) : nodes[i].id = p /\ IsSparseNode(nodes[i])
    /\ \E p, q, r \in Phones :
           Len(p) < TruncationLength /\ Len(q) = TruncationLength /\ Len(r) > TruncationLength

(* C10: in the pipeline's output every edge leaves a registered user, no   *)
(* edge enters a registered user, and no two edges have the same source    *)
(* and target.                                                             *)
C10_PipelineEdgesAreSimple ==
    (mode = "main" /\ pc = "written") =>
        /\ \A i \in 1..Len(edges) :
               /\ DictHas(registered_users, edges[i].source_id)
               /\ ~DictHas(registered_users, edges[i].target_id)
               /\ edges[i].source_id # edges[i].target_id
        /\ \A i, j \in 1..Len(edges) :
               (edges[i].source_id = edges[j].source_id
                    /\ edges[i].target_id = edges[j].target_id) => i = j

\* The document is written, with edges, for an input in which records
\* share a phone number and a contact list repeats a number.
C10_Witness ==
    /\ mode = "main" /\ pc = "written"
    /\ HasSharedPhoneNumber
    /\ HasRepeatedContact
    /\ edges # <<>>

====
